---- MODULE Spec2Model ----
(***************************************************************************)
(* ProtoML scoring and consensus engine.                                   *)
(*                                                                         *)
(*   helper/arxiv_fetcher.py   ArxivFetcher.fetch_papers, split_papers     *)
(*   helper/paper_scorer.py    PaperScorer.score_with_groq / _gemini       *)
(*   helper/agent_debate.py    AgentDebate.select_final_paper and rounds   *)
(*   main.py                   ProtoML.run, steps 1 to 4                   *)
(*                                                                         *)
(* Conventions.                                                            *)
(*   - A Python str is a sequence of tokens [w |-> "..."]; the token       *)
(*     [doc |-> v] stands for the JSON text that serialises the value v.   *)
(*   - A parsed JSON value is one of [int |-> n], [str |-> text],          *)
(*     [null |-> TRUE], [list |-> <<...>>], [obj |-> f] with f a function  *)
(*     from key names to JSON values (a Python dict).                      *)
(*   - Scores and weights are floats in the source.  Every weight is 0.25  *)
(*     and every accepted criterion value is a JSON integer, so totals are *)
(*     exact multiples of 0.25; the model keeps them in hundredths         *)
(*     (8.25 is 825, the literal 5.0 is 500).                              *)
(*   - A Python dict with string keys is a function on strings; d.copy()   *)
(*     followed by d[k] = v is (k :> v) @@ d.                              *)
(***************************************************************************)
EXTENDS Integers, Sequences, FiniteSets, TLC

(***************************************************************************)
(* Bounds of the model.                                                    *)
(***************************************************************************)
MaxPapers == 3     \* longest list fetch_papers returns in Spec
MaxId     == 2     \* arxiv ids are 1..MaxId (a cross-listed paper repeats)
MaxBatch  == 3     \* papers handed to the two scoring rounds in SpecScoring

(***************************************************************************)
(* Text and JSON values.                                                   *)
(***************************************************************************)
Word(s) == [w |-> s]
WS      == Word(" ")
TICKS   == Word("<triple-backtick>")   \* the three-backtick fence marker
Doc(v)  == [doc |-> v]

JInt(n)  == [int |-> n]
JStr(t)  == [str |-> t]
JNull    == [null |-> TRUE]
JList(l) == [list |-> l]
JObj(f)  == [obj |-> f]

IsInt(v)  == DOMAIN v = {"int"}
IsStr(v)  == DOMAIN v = {"str"}
IsNull(v) == DOMAIN v = {"null"}
IsList(v) == DOMAIN v = {"list"}
IsObj(v)  == DOMAIN v = {"obj"}

\* Result of an expression that may raise: Ok(v) or Raise(message text).
Ok(v)    == [ok |-> TRUE, v |-> v]
Raise(e) == [ok |-> FALSE, e |-> e]

\* str.strip(): drop leading and trailing whitespace.
RECURSIVE LStrip(_)
LStrip(s) == IF s # <<>> /\ Head(s) = WS THEN LStrip(Tail(s)) ELSE s

RECURSIVE RStrip(_)
RStrip(s) ==
    IF s # <<>> /\ s[Len(s)] = WS THEN RStrip(SubSeq(s, 1, Len(s) - 1)) ELSE s

Strip(s) == LStrip(RStrip(s))

\* Index of the first occurrence of sep in s, 0 when there is none.
Find(s, sep) ==
    LET hits == {k \in 1..(Len(s) - Len(sep) + 1) :
                    SubSeq(s, k, k + Len(sep) - 1) = sep}
    IN IF hits = {} THEN 0 ELSE CHOOSE k \in hits : \A h \in hits : k <= h

\* sep in s
Contains(s, sep) == Find(s, sep) # 0

\* s.split(sep)[0]
Split0(s, sep) ==
    IF Contains(s, sep) THEN SubSeq(s, 1, Find(s, sep) - 1) ELSE s

\* s.split(sep)[1]; only used where sep occurs in s.
Split1(s, sep) ==
    Split0(SubSeq(s, Find(s, sep) + Len(sep), Len(s)), sep)

FENCE      == <<TICKS>>                  \* the fence marker alone
FENCE_JSON == <<TICKS, Word("json")>>    \* the fence marker followed by json

\* The "Extract JSON from response" step.
ExtractJson(content) ==
    IF Contains(content, FENCE_JSON)
    THEN Strip(Split0(Split1(content, FENCE_JSON), FENCE))
    ELSE IF Contains(content, FENCE)
    THEN Strip(Split0(Split1(content, FENCE), FENCE))
    ELSE content

\* The k-th piece of the JSON text of v, when fence markers inside the
\* strings of v cut that text into pieces; no piece is a document by itself.
Frag(v, k) == [frag |-> [v |-> v, k |-> k]]

\* The fence markers inside a text.
StrTicks(t) == Cardinality({k \in 1..Len(t) : t[k] = TICKS})

RECURSIVE TicksInFields(_, _)
TicksInFields(f, keys) ==
    IF keys = {} THEN 0
    ELSE LET k == CHOOSE x \in keys : TRUE
         IN (IF IsStr(f[k]) THEN StrTicks(f[k].str) ELSE 0)
              + TicksInFields(f, keys \ {k})

\* The fence markers inside the JSON text of v (v a text or an object whose
\* fields are texts and numbers).
TicksIn(v) ==
    IF IsStr(v) THEN StrTicks(v.str)
    ELSE IF IsObj(v) THEN TicksInFields(v.obj, DOMAIN v.obj)
    ELSE 0

\* The JSON text of v as the backend writes it: one document token, or the
\* pieces of the document with the fence markers of its strings between them.
Dumps(v) ==
    LET n == TicksIn(v)
    IN IF n = 0 THEN <<Doc(v)>>
       ELSE [k \in 1..(2 * n + 1) |->
                IF k % 2 = 0 THEN TICKS ELSE Frag(v, (k + 1) \div 2)]

\* json.loads: surrounding whitespace is accepted, anything but exactly one
\* JSON document raises JSONDecodeError.
JsonLoads(content) ==
    LET body == Strip(content)
    IN IF Len(body) = 1 /\ DOMAIN body[1] = {"doc"}
       THEN Ok(body[1].doc)
       ELSE IF body # <<>> /\ DOMAIN body[1] = {"frag"}
               /\ body = Dumps(body[1].frag.v)
       THEN Ok(body[1].frag.v)
       ELSE Raise(<<Word("Expecting value")>>)

(***************************************************************************)
(* config.py                                                               *)
(***************************************************************************)
CRITERIA ==
    <<"problem_relevance", "dataset_quality", "model_novelty",
      "real_world_impact">>

\* The scale of the scoring prompt ("scale 1-10").
SCALE_MIN == 1
SCALE_MAX == 10

\* SCORING_WEIGHTS, in hundredths (0.25 is 25); iterated in this key order.
SCORING_WEIGHTS ==
    [problem_relevance |-> 25, dataset_quality |-> 25,
     model_novelty |-> 25, real_world_impact |-> 25]

(***************************************************************************)
(* helper/paper_scorer.py                                                  *)
(***************************************************************************)
\* A backend answer to one call: the call raises (kind "raise", content is
\* str(e)), returns text (kind "text") or returns no text at all (kind
\* "none": message.content / response.text is None).
Response(kind, content) == [kind |-> kind, content |-> content]

\* Variant of ScoreTimesWeight: the weight is left out of the product.
ScoreUnweighted(scores, c) ==
    IF ~IsObj(scores)
    THEN Raise(<<Word("TypeError: not subscriptable with str")>>)
    ELSE IF c \notin DOMAIN scores.obj
    THEN Raise(<<Word("KeyError:"), Word(c)>>)
    ELSE IF ~IsInt(scores.obj[c])
    THEN Raise(<<Word("TypeError: can't multiply by float")>>)
    ELSE Ok(scores.obj[c].int * 100)

\* scores[criterion] * weight for one criterion.
ScoreTimesWeight(scores, c) ==
    IF ~IsObj(scores)
    THEN Raise(<<Word("TypeError: not subscriptable with str")>>)
    ELSE IF c \notin DOMAIN scores.obj
    THEN Raise(<<Word("KeyError:"), Word(c)>>)
    ELSE IF ~IsInt(scores.obj[c])
    THEN Raise(<<Word("TypeError: can't multiply by float")>>)
    ELSE Ok(scores.obj[c].int * SCORING_WEIGHTS[c])

\* sum(scores[criterion] * weight for criterion, weight in weights.items()),
\* from criterion k on with acc the sum so far; the first failure raises.
RECURSIVE WeightedFrom(_, _, _)
WeightedFrom(scores, k, acc) ==
    IF k > Len(CRITERIA) THEN Ok(acc)
    ELSE LET t == ScoreTimesWeight(scores, CRITERIA[k])
         IN IF t.ok THEN WeightedFrom(scores, k + 1, acc + t.v) ELSE t

weighted_score(scores) == WeightedFrom(scores, 1, 0)

\* The try block of score_with_groq up to the weighted score.
groq_try(resp) ==
    IF resp.kind = "raise" THEN Raise(resp.content)
    ELSE IF resp.kind = "none"
    THEN Raise(<<Word("TypeError: argument of type NoneType")>>)
    ELSE LET parsed == JsonLoads(ExtractJson(resp.content))
         IN IF ~parsed.ok THEN parsed
            ELSE LET total == weighted_score(parsed.v)
                 IN IF ~total.ok THEN total
                    ELSE Ok([scores |-> parsed.v, total |-> total.v])

\* The try block of score_with_gemini: response.text.strip(), no fence
\* handling.
gemini_try(resp) ==
    IF resp.kind = "raise" THEN Raise(resp.content)
    ELSE IF resp.kind = "none"
    THEN Raise(<<Word("AttributeError: NoneType has no strip")>>)
    ELSE LET parsed == JsonLoads(Strip(resp.content))
         IN IF ~parsed.ok THEN parsed
            ELSE LET total == weighted_score(parsed.v)
                 IN IF ~total.ok THEN total
                    ELSE Ok([scores |-> parsed.v, total |-> total.v])

\* Variant of default_scores: the neutral value is 3, the literal total of
\* the except branch stays 5.0.
default_scores_threes(e) ==
    JObj([problem_relevance |-> JInt(3), dataset_quality |-> JInt(3),
          model_novelty |-> JInt(3), real_world_impact |-> JInt(3),
          reasoning |-> JStr(<<Word("Error during scoring: ")>> \o e),
          overall_impression |-> JStr(<<Word("Unable to score")>>)])

\* The default scores of the except branch; e is str(e).
default_scores(e) ==
    JObj([problem_relevance |-> JInt(5), dataset_quality |-> JInt(5),
          model_novelty |-> JInt(5), real_world_impact |-> JInt(5),
          reasoning |-> JStr(<<Word("Error during scoring: ")>> \o e),
          overall_impression |-> JStr(<<Word("Unable to score")>>)])

\* Variant of paper_with_score: the except branch stores 0.0 as the total.
paper_with_score_zero(paper, r, scoresKey, totalKey) ==
    IF r.ok
    THEN (scoresKey :> r.v.scores) @@ (totalKey :> r.v.total) @@ paper
    ELSE (scoresKey :> default_scores(r.e)) @@ (totalKey :> 0) @@ paper

\* paper_with_score for one paper and one backend answer.
paper_with_score(paper, r, scoresKey, totalKey) ==
    IF r.ok
    THEN (scoresKey :> r.v.scores) @@ (totalKey :> r.v.total) @@ paper
    ELSE (scoresKey :> default_scores(r.e)) @@ (totalKey :> 500) @@ paper

\* Variant of groq_iteration: the except branch skips the paper.
groq_iteration_skip(scored, paper, resp) ==
    IF groq_try(resp).ok
    THEN Append(scored,
                paper_with_score(paper, groq_try(resp),
                                 "groq_scores", "groq_total_score"))
    ELSE scored

\* One iteration of the for loop: scored_papers after the append.
groq_iteration(scored, paper, resp) ==
    Append(scored,
           paper_with_score(paper, groq_try(resp),
                            "groq_scores", "groq_total_score"))

gemini_iteration(scored, paper, resp) ==
    Append(scored,
           paper_with_score(paper, gemini_try(resp),
                            "gemini_scores", "gemini_total_score"))

\* Variant of InsertDesc: reverse=True forgotten (ascending order).
InsertAsc(sorted, p, key) ==
    LET ahead == Cardinality({k \in 1..Len(sorted) :
                                 sorted[k][key] <= p[key]})
    IN SubSeq(sorted, 1, ahead) \o <<p>>
           \o SubSeq(sorted, ahead + 1, Len(sorted))

\* Variant of InsertDesc: an element goes in front of its equals.
InsertDescUnstable(sorted, p, key) ==
    LET ahead == Cardinality({k \in 1..Len(sorted) :
                                 sorted[k][key] > p[key]})
    IN SubSeq(sorted, 1, ahead) \o <<p>>
           \o SubSeq(sorted, ahead + 1, Len(sorted))

\* list.sort(key=lambda x: x[key], reverse=True): descending and stable.
\* Insert p behind every element whose key is at least p's.
InsertDesc(sorted, p, key) ==
    LET ahead == Cardinality({k \in 1..Len(sorted) :
                                 sorted[k][key] >= p[key]})
    IN SubSeq(sorted, 1, ahead) \o <<p>>
           \o SubSeq(sorted, ahead + 1, Len(sorted))

RECURSIVE SortFrom(_, _, _, _)
SortFrom(list, k, sorted, key) ==
    IF k > Len(list) THEN sorted
    ELSE SortFrom(list, k + 1, InsertDesc(sorted, list[k], key), key)

\* Variant of SortDesc: selection sort that swaps the first maximum of the
\* rest into place (descending, not stable).
RECURSIVE SelectFrom(_, _, _)
SelectFrom(list, k, key) ==
    IF k >= Len(list) THEN list
    ELSE LET best == CHOOSE m \in k..Len(list) :
                        /\ \A n \in k..Len(list) : list[m][key] >= list[n][key]
                        /\ \A n \in k..(m - 1) : list[n][key] < list[m][key]
             swapped == [list EXCEPT ![k] = list[best], ![best] = list[k]]
         IN SelectFrom(swapped, k + 1, key)

SortDescSwapping(list, key) == SelectFrom(list, 1, key)

SortDesc(list, key) == SortFrom(list, 1, <<>>, key)

\* score_with_groq / score_with_gemini as functions of the batch and of the
\* backend's answers, one per paper in batch order.
RECURSIVE groq_loop(_, _, _, _)
groq_loop(batch, answers, k, scored) ==
    IF k > Len(batch) THEN scored
    ELSE groq_loop(batch, answers, k + 1,
                   groq_iteration(scored, batch[k], answers[k]))

score_with_groq(batch, answers) ==
    SortDesc(groq_loop(batch, answers, 1, <<>>), "groq_total_score")

RECURSIVE gemini_loop(_, _, _, _)
gemini_loop(batch, answers, k, scored) ==
    IF k > Len(batch) THEN scored
    ELSE gemini_loop(batch, answers, k + 1,
                     gemini_iteration(scored, batch[k], answers[k]))

score_with_gemini(batch, answers) ==
    SortDesc(gemini_loop(batch, answers, 1, <<>>), "gemini_total_score")

(***************************************************************************)
(* Inputs: papers and backend answers.                                     *)
(***************************************************************************)
\* The paper record built by fetch_papers (the fields the core reads).
Paper(id) ==
    [arxiv_id |-> id,
     title |-> <<Word("Title"), Word(ToString(id))>>,
     abstract |-> <<Word("Abstract"), Word(ToString(id))>>,
     primary_category |-> <<Word("cs.LG")>>]

\* A complete score object as the scoring prompt asks for it.
Scores(a, b, c, d, why) ==
    JObj([problem_relevance |-> JInt(a), dataset_quality |-> JInt(b),
          model_novelty |-> JInt(c), real_world_impact |-> JInt(d),
          reasoning |-> JStr(<<Word(why)>>),
          overall_impression |-> JStr(<<Word("summary")>>)])

\* Score objects a backend may send that break the requested shape.
NoReasoning ==
    JObj([problem_relevance |-> JInt(9), dataset_quality |-> JInt(9),
          model_novelty |-> JInt(9), real_world_impact |-> JInt(9),
          overall_impression |-> JStr(<<Word("summary")>>)])

MissingCriterion ==
    JObj([problem_relevance |-> JInt(9), dataset_quality |-> JInt(9),
          real_world_impact |-> JInt(9),
          reasoning |-> JStr(<<Word("three criteria")>>),
          overall_impression |-> JStr(<<Word("summary")>>)])

TextCriterion ==
    JObj([problem_relevance |-> JInt(9), dataset_quality |-> JInt(9),
          model_novelty |-> JStr(<<Word("9")>>),
          real_world_impact |-> JInt(9),
          reasoning |-> JStr(<<Word("quoted score")>>),
          overall_impression |-> JStr(<<Word("summary")>>)])

\* Answers of a scoring backend in SpecScoring.
ScoreResponses ==
    { Response("raise", <<Word("Connection error.")>>),
      Response("none", <<>>),
      Response("text", <<Word("I cannot score this paper.")>>),
      Response("text", <<Doc(Scores(8, 8, 8, 8, "solid"))>>),
      Response("text", <<WS, Doc(Scores(5, 5, 5, 5, "average")), WS>>),
      Response("text", <<Word("Here is my analysis:"), TICKS, Word("json"), WS,
                         Doc(Scores(9, 7, 9, 7, "novel")), WS, TICKS>>),
      Response("text", <<TICKS, WS, Doc(Scores(10, 10, 10, 10, "excellent")),
                         WS, TICKS, WS, Word("Hope this helps.")>>),
      Response("text", <<Doc(Scores(1, 2, 3, 4, "weak"))>>),
      Response("text", <<Doc(Scores(11, 11, 11, 11, "off the scale"))>>),
      Response("text", <<Doc(NoReasoning)>>),
      Response("text", <<Doc(MissingCriterion)>>),
      Response("text", <<Doc(TextCriterion)>>) }

(***************************************************************************)
(* State.                                                                  *)
(***************************************************************************)
VARIABLES
    pc,             \* position of ProtoML.run
    papers,         \* run: the fetched list
    groq_papers,    \* run: first sub-batch
    gemini_papers,  \* run: second sub-batch
    i,              \* score_with_*: 1-based loop position
    scored_papers,  \* score_with_*: the list being built
    groq_scored,    \* run: result of score_with_groq
    gemini_scored,  \* run: result of score_with_gemini
    groq_served,    \* answers the Groq backend gave, in call order
    gemini_served,  \* answers the Gemini backend gave, in call order
    calls,          \* every external call issued so far, in order
    conversation_context,  \* AgentDebate.conversation_context
    debate_history, \* select_final_paper: the transcript being built
    groq_argument,  \* select_final_paper: round 1 argument
    gemini_argument,\* select_final_paper: round 2 argument
    selected_paper, \* run: what select_final_paper returned
    debate_served,  \* answers given to the three debate calls, in order
    raised          \* the exception that ended run, if any

debateVars ==
    <<conversation_context, debate_history, groq_argument, gemini_argument,
      selected_paper, debate_served, raised>>

vars ==
    <<pc, papers, groq_papers, gemini_papers, i, scored_papers, groq_scored,
      gemini_scored, groq_served, gemini_served, calls, debateVars>>

\* Value of a local that is not assigned yet.
Unset == <<>>

(***************************************************************************)
(* PaperScorer.score_with_groq / score_with_gemini, one loop iteration per *)
(* step; the last iteration sorts and returns.                             *)
(***************************************************************************)
ScoreGroqEmpty ==
    /\ pc = "score_groq"
    /\ groq_papers = <<>>
    /\ groq_scored' = SortDesc(<<>>, "groq_total_score")
    /\ pc' = "score_gemini"
    /\ UNCHANGED <<papers, groq_papers, gemini_papers, i, scored_papers,
                   gemini_scored, groq_served, gemini_served, calls,
                   debateVars>>

\* Variant of ScoreGroqStep: the score fields are set on the input paper
\* itself, without paper.copy().
ScoreGroqStep_NoCopy(R) ==
    /\ pc = "score_groq"
    /\ i <= Len(groq_papers)
    /\ \E resp \in R :
         LET next == groq_iteration(scored_papers, groq_papers[i], resp)
         IN /\ groq_served' = Append(groq_served, resp)
            /\ calls' = Append(calls, [api |-> "groq", op |-> "score",
                                       arxiv_id |-> groq_papers[i].arxiv_id])
            /\ groq_papers' = [groq_papers EXCEPT ![i] = next[Len(next)]]
            /\ IF i = Len(groq_papers)
               THEN /\ groq_scored' = SortDesc(next, "groq_total_score")
                    /\ scored_papers' = <<>>
                    /\ i' = 1
                    /\ pc' = "score_gemini"
               ELSE /\ scored_papers' = next
                    /\ i' = i + 1
                    /\ UNCHANGED <<groq_scored, pc>>
    /\ UNCHANGED <<papers, gemini_papers, gemini_scored,
                   gemini_served, debateVars>>

ScoreGroqStep(R) ==
    /\ pc = "score_groq"
    /\ i <= Len(groq_papers)
    /\ \E resp \in R :
         LET next == groq_iteration(scored_papers, groq_papers[i], resp)
         IN /\ groq_served' = Append(groq_served, resp)
            /\ calls' = Append(calls, [api |-> "groq", op |-> "score",
                                       arxiv_id |-> groq_papers[i].arxiv_id])
            /\ IF i = Len(groq_papers)
               THEN /\ groq_scored' = SortDesc(next, "groq_total_score")
                    /\ scored_papers' = <<>>
                    /\ i' = 1
                    /\ pc' = "score_gemini"
               ELSE /\ scored_papers' = next
                    /\ i' = i + 1
                    /\ UNCHANGED <<groq_scored, pc>>
    /\ UNCHANGED <<papers, groq_papers, gemini_papers, gemini_scored,
                   gemini_served, debateVars>>

ScoreGeminiEmpty ==
    /\ pc = "score_gemini"
    /\ gemini_papers = <<>>
    /\ gemini_scored' = SortDesc(<<>>, "gemini_total_score")
    /\ pc' = "top_scores"
    /\ UNCHANGED <<papers, groq_papers, gemini_papers, i, scored_papers,
                   groq_scored, groq_served, gemini_served, calls,
                   debateVars>>

ScoreGeminiStep(R) ==
    /\ pc = "score_gemini"
    /\ i <= Len(gemini_papers)
    /\ \E resp \in R :
         LET next == gemini_iteration(scored_papers, gemini_papers[i], resp)
         IN /\ gemini_served' = Append(gemini_served, resp)
            /\ calls' = Append(calls, [api |-> "gemini", op |-> "score",
                                       arxiv_id |-> gemini_papers[i].arxiv_id])
            /\ IF i = Len(gemini_papers)
               THEN /\ gemini_scored' = SortDesc(next, "gemini_total_score")
                    /\ scored_papers' = <<>>
                    /\ i' = 1
                    /\ pc' = "top_scores"
               ELSE /\ scored_papers' = next
                    /\ i' = i + 1
                    /\ UNCHANGED <<gemini_scored, pc>>
    /\ UNCHANGED <<papers, groq_papers, gemini_papers, groq_scored,
                   groq_served, debateVars>>

(***************************************************************************)
(* SpecScoring: the two scoring rounds on arbitrary batches of distinct    *)
(* papers.                                                                 *)
(***************************************************************************)
InitScoring ==
    /\ pc = "score_groq"
    /\ \E n \in 0..MaxBatch : \E m \in 0..n :
         /\ groq_papers = [k \in 1..m |-> Paper(k)]
         /\ gemini_papers = [k \in 1..(n - m) |-> Paper(m + k)]
    /\ papers = groq_papers \o gemini_papers
    /\ i = 1
    /\ scored_papers = <<>>
    /\ groq_scored = <<>>
    /\ gemini_scored = <<>>
    /\ groq_served = <<>>
    /\ gemini_served = <<>>
    /\ calls = <<>>
    /\ conversation_context = <<>>
    /\ debate_history = Unset
    /\ groq_argument = Unset
    /\ gemini_argument = Unset
    /\ selected_paper = Unset
    /\ debate_served = <<>>
    /\ raised = Unset

NextScoring ==
    \/ ScoreGroqEmpty
    \/ ScoreGroqStep(ScoreResponses)
    \/ ScoreGeminiEmpty
    \/ ScoreGeminiStep(ScoreResponses)

SpecScoring == InitScoring /\ [][NextScoring]_vars

(***************************************************************************)
(* helper/agent_debate.py                                                  *)
(***************************************************************************)
\* f"{x:.2f}" of a total kept in hundredths.
Format2f(h) ==
    <<Word(ToString(h \div 100)), Word("."),
      Word(IF h % 100 < 10 THEN "0" \o ToString(h % 100)
                           ELSE ToString(h % 100))>>

\* f"{v}" of a JSON value: a str as it is, anything else by its repr.
FormatValue(v) == IF IsStr(v) THEN v.str ELSE <<Doc(v)>>

\* text[:n]
Slice(text, n) == SubSeq(text, 1, IF Len(text) < n THEN Len(text) ELSE n)

\* d[key][:n] on the dict inside a JSON object: KeyError without the key,
\* TypeError when the value cannot be sliced.
SliceOfKey(d, key, n) ==
    IF ~IsObj(d)
    THEN Raise(<<Word("TypeError: not subscriptable with str")>>)
    ELSE IF key \notin DOMAIN d.obj
    THEN Raise(<<Word("KeyError:"), Word(key)>>)
    ELSE IF IsStr(d.obj[key]) THEN Ok(Slice(d.obj[key].str, n))
    ELSE IF IsList(d.obj[key]) THEN Ok(Slice(d.obj[key].list, n))
    ELSE Raise(<<Word("TypeError: not subscriptable with slice")>>)

\* Variant of groq_prompt: the competing paper's analysis is shown too.
groq_prompt_leaky(groq_choice, gemini_choice) ==
    [title |-> groq_choice.title,
     your_score |-> Format2f(groq_choice.groq_total_score),
     your_analysis |-> FormatValue(groq_choice.groq_scores.obj["reasoning"]),
     competing_title |-> gemini_choice.title,
     competing_score |-> Format2f(gemini_choice.gemini_total_score),
     competing_analysis |->
         FormatValue(gemini_choice.gemini_scores.obj["reasoning"])]

\* The user prompt of _groq_present_case, by its interpolated fields.
groq_prompt(groq_choice, gemini_choice) ==
    [title |-> groq_choice.title,
     your_score |-> Format2f(groq_choice.groq_total_score),
     your_analysis |-> FormatValue(groq_choice.groq_scores.obj["reasoning"]),
     competing_title |-> gemini_choice.title,
     competing_score |-> Format2f(gemini_choice.gemini_total_score)]

\* Variant of _groq_present_case: the fallback text is built from the other
\* candidate's reasoning.
_groq_present_case_opponent(groq_choice, gemini_choice, resp) ==
    IF resp.kind = "text" THEN Strip(resp.content)
    ELSE <<Word("I believe my paper is superior due to ")>>
             \o FormatValue(gemini_choice.gemini_scores.obj["reasoning"])

\* _groq_present_case: the argument returned for one backend answer.
_groq_present_case(groq_choice, gemini_choice, resp) ==
    IF resp.kind = "text" THEN Strip(resp.content)
    ELSE <<Word("I believe my paper is superior due to ")>>
             \o FormatValue(groq_choice.groq_scores.obj["reasoning"])

\* Variant of gemini_prompt: the opponent's argument is cut short, as it is
\* in the progress print of the round.
gemini_prompt_truncated(gemini_choice, groq_choice, groq_arg) ==
    [opponent_argument |-> Slice(groq_arg, 1),
     opponent_title |-> groq_choice.title,
     title |-> gemini_choice.title,
     your_score |-> Format2f(gemini_choice.gemini_total_score),
     your_analysis |->
         FormatValue(gemini_choice.gemini_scores.obj["reasoning"])]

\* The user prompt of _gemini_present_case.
gemini_prompt(gemini_choice, groq_choice, groq_arg) ==
    [opponent_argument |-> groq_arg,
     opponent_title |-> groq_choice.title,
     title |-> gemini_choice.title,
     your_score |-> Format2f(gemini_choice.gemini_total_score),
     your_analysis |->
         FormatValue(gemini_choice.gemini_scores.obj["reasoning"])]

\* _gemini_present_case: the argument returned for one backend answer.
_gemini_present_case(gemini_choice, groq_choice, groq_arg, resp) ==
    IF resp.kind = "text" THEN Strip(resp.content)
    ELSE <<Word("My paper is superior because ")>>
             \o FormatValue(gemini_choice.gemini_scores.obj["reasoning"])

\* The user prompt of _make_final_decision.
decision_prompt(groq_choice, gemini_choice, groq_arg, gemini_arg) ==
    [a_title |-> groq_choice.title,
     a_score |-> Format2f(groq_choice.groq_total_score),
     a_argument |-> groq_arg,
     a_abstract |-> Slice(groq_choice.abstract, 300),
     b_title |-> gemini_choice.title,
     b_score |-> Format2f(gemini_choice.gemini_total_score),
     b_argument |-> gemini_arg,
     b_abstract |-> Slice(gemini_choice.abstract, 300)]

Decision(selected, reasoning, confidence) ==
    JObj([selected |-> JStr(<<Word(selected)>>),
          reasoning |-> JStr(<<Word(reasoning)>>),
          confidence |-> JStr(<<Word(confidence)>>)])

\* Variant of fallback_decision: candidate A needs the strictly higher total.
fallback_decision_strict(groq_choice, gemini_choice) ==
    IF groq_choice.groq_total_score > gemini_choice.gemini_total_score
    THEN Decision("groq",
                  "Selected based on higher score after debate error.",
                  "medium")
    ELSE Decision("gemini",
                  "Selected based on higher score after debate error.",
                  "medium")

\* Variant of fallback_decision: the fallback carries no confidence.
fallback_decision_bare(groq_choice, gemini_choice) ==
    IF groq_choice.groq_total_score >= gemini_choice.gemini_total_score
    THEN JObj([selected |-> JStr(<<Word("groq")>>),
               reasoning |-> JStr(<<Word("Selected based on higher score.")>>)])
    ELSE JObj([selected |-> JStr(<<Word("gemini")>>),
               reasoning |-> JStr(<<Word("Selected based on higher score.")>>)])

\* Variant of fallback_decision: the score comparison is turned around.
fallback_decision_lower(groq_choice, gemini_choice) ==
    IF groq_choice.groq_total_score <= gemini_choice.gemini_total_score
    THEN Decision("groq",
                  "Selected based on higher score after debate error.",
                  "medium")
    ELSE Decision("gemini",
                  "Selected based on higher score after debate error.",
                  "medium")

\* The except branch of _make_final_decision.
fallback_decision(groq_choice, gemini_choice) ==
    IF groq_choice.groq_total_score >= gemini_choice.gemini_total_score
    THEN Decision("groq",
                  "Selected based on higher score after debate error.",
                  "medium")
    ELSE Decision("gemini",
                  "Selected based on higher score after debate error.",
                  "medium")

\* _make_final_decision: the decision returned for one backend answer.
_make_final_decision(groq_choice, gemini_choice, resp) ==
    IF resp.kind # "text" THEN fallback_decision(groq_choice, gemini_choice)
    ELSE LET parsed == JsonLoads(ExtractJson(resp.content))
         IN IF parsed.ok THEN parsed.v
            ELSE fallback_decision(groq_choice, gemini_choice)

\* final_decision['selected'] == 'groq', the test that picks the paper.
SelectedIsGroq(final_decision) ==
    IF ~IsObj(final_decision)
    THEN Raise(<<Word("TypeError: not subscriptable with str")>>)
    ELSE IF "selected" \notin DOMAIN final_decision.obj
    THEN Raise(<<Word("KeyError:"), Word("selected")>>)
    ELSE Ok(final_decision.obj["selected"] = JStr(<<Word("groq")>>))

\* The end of select_final_paper after the debate: the returned dict, or
\* the exception of the selection test or of the Reason print.
debate_result(groq_top, gemini_top, history, final_decision) ==
    LET pick == SelectedIsGroq(final_decision)
        why  == SliceOfKey(final_decision, "reasoning", 200)
    IN IF ~pick.ok THEN pick
       ELSE IF ~why.ok THEN why
       ELSE Ok(("selection_method" :> "debate")
                 @@ ("debate_history" :> history)
                 @@ ("final_decision" :> final_decision)
                 @@ (IF pick.v THEN groq_top ELSE gemini_top))

(***************************************************************************)
(* Backend answers in Spec.                                                *)
(***************************************************************************)
RunScoreResponses ==
    { Response("raise", <<Word("Connection error.")>>),
      Response("text", <<Doc(Scores(8, 8, 8, 8, "solid"))>>),
      Response("text", <<Doc(Scores(1, 2, 3, 4, "weak"))>>),
      Response("text", <<Doc(NoReasoning)>>) }

ArgumentResponses ==
    { Response("raise", <<Word("Connection error.")>>),
      Response("none", <<>>),
      Response("text", <<WS, Word("My paper is the stronger one."), WS>>) }

DecisionResponses ==
    { Response("raise", <<Word("Connection error.")>>),
      Response("none", <<>>),
      Response("text", <<Word("Both papers are interesting.")>>),
      Response("text", <<Doc(Decision("groq", "A is feasible", "high"))>>),
      Response("text", <<TICKS, Word("json"), WS,
                         Doc(Decision("gemini", "B teaches more", "low")),
                         WS, TICKS>>),
      Response("text", <<Word("My decision:"), WS, TICKS, WS,
                         Doc(Decision("gemini", "B is novel", "medium")),
                         WS, TICKS, WS, Word("Done.")>>),
      Response("text", <<Doc(Decision("Groq", "A wins", "high"))>>),
      Response("text", <<Doc(Decision("gemini", "B wins", "very high"))>>),
      Response("text",
               <<Doc(JObj([selected |-> JStr(<<Word("groq")>>)]))>>),
      Response("text",
               <<Doc(JObj([selected |-> JStr(<<Word("gemini")>>),
                           reasoning |-> JInt(7),
                           confidence |-> JStr(<<Word("low")>>)]))>>),
      Response("text", <<Doc(JNull)>>),
      Response("text", <<Doc(JList(<<JStr(<<Word("groq")>>)>>))>>) }

(***************************************************************************)
(* main.py, ProtoML.run steps 1 and 2 with ArxivFetcher.                   *)
(***************************************************************************)
\* Lists fetch_papers may return: a paper listed under two of the queried
\* categories comes back twice.
FetchedLists ==
    UNION {[1..n -> {Paper(id) : id \in 1..MaxId}] : n \in 0..MaxPapers}

\* ArxivFetcher.split_papers
split_papers(list) ==
    LET mid == Len(list) \div 2
    IN <<SubSeq(list, 1, mid), SubSeq(list, mid + 1, Len(list))>>

\* Step 1: fetch_papers returned; an empty list ends the run.
Fetch ==
    /\ pc = "fetch"
    /\ \E list \in FetchedLists :
         /\ papers' = list
         /\ pc' = IF list = <<>> THEN "no_papers" ELSE "split"
    /\ UNCHANGED <<groq_papers, gemini_papers, i, scored_papers, groq_scored,
                   gemini_scored, groq_served, gemini_served, calls,
                   debateVars>>

\* Step 2
Split ==
    /\ pc = "split"
    /\ groq_papers' = split_papers(papers)[1]
    /\ gemini_papers' = split_papers(papers)[2]
    /\ pc' = "score_groq"
    /\ UNCHANGED <<papers, i, scored_papers, groq_scored, gemini_scored,
                   groq_served, gemini_served, calls, debateVars>>

\* The "Top Scores" display of step 3 indexes both scored lists.
TopScores ==
    /\ pc = "top_scores"
    /\ IF groq_scored = <<>> \/ gemini_scored = <<>>
       THEN /\ pc' = "pipeline_error"
            /\ raised' = [at |-> "run",
                          e |-> <<Word("IndexError: list index out of range")>>]
       ELSE /\ pc' = "select"
            /\ UNCHANGED raised
    /\ UNCHANGED <<papers, groq_papers, gemini_papers, i, scored_papers,
                   groq_scored, gemini_scored, groq_served, gemini_served,
                   calls, conversation_context, debate_history, groq_argument,
                   gemini_argument, selected_paper, debate_served>>

(***************************************************************************)
(* AgentDebate.select_final_paper, one step per external call.             *)
(***************************************************************************)
groq_top   == groq_scored[1]

\* Variant of gemini_top: the last paper of the list instead of the first.
gemini_top_last == gemini_scored[Len(gemini_scored)]

gemini_top == gemini_scored[1]

\* Variant of SelectStart: the context is reset on entry, before the
\* identifiers are compared.
SelectStart_ResetFirst ==
    /\ pc = "select"
    /\ LET shownA == SliceOfKey(groq_top.groq_scores, "reasoning", 100)
           shownB == SliceOfKey(gemini_top.gemini_scores, "reasoning", 100)
       IN IF ~shownA.ok \/ ~shownB.ok
          THEN /\ pc' = "pipeline_error"
               /\ raised' = [at |-> "select_final_paper",
                             e |-> IF ~shownA.ok THEN shownA.e ELSE shownB.e]
               /\ UNCHANGED <<conversation_context, debate_history,
                              selected_paper>>
          ELSE IF groq_top.arxiv_id = gemini_top.arxiv_id
          THEN /\ selected_paper' = ("selection_method" :> "unanimous")
                                      @@ ("debate_history" :> <<>>)
                                      @@ groq_top
               /\ conversation_context' = <<>>
               /\ pc' = "selected"
               /\ UNCHANGED <<debate_history, raised>>
          ELSE /\ conversation_context' = <<>>
               /\ debate_history' = <<>>
               /\ pc' = "round_a"
               /\ UNCHANGED <<selected_paper, raised>>
    /\ UNCHANGED <<papers, groq_papers, gemini_papers, i, scored_papers,
                   groq_scored, gemini_scored, groq_served, gemini_served,
                   calls, groq_argument, gemini_argument, debate_served>>

\* Entry up to the first external call: the top choices are printed, equal
\* identifiers return at once, otherwise the debate is set up.
SelectStart ==
    /\ pc = "select"
    /\ LET shownA == SliceOfKey(groq_top.groq_scores, "reasoning", 100)
           shownB == SliceOfKey(gemini_top.gemini_scores, "reasoning", 100)
       IN IF ~shownA.ok \/ ~shownB.ok
          THEN /\ pc' = "pipeline_error"
               /\ raised' = [at |-> "select_final_paper",
                             e |-> IF ~shownA.ok THEN shownA.e ELSE shownB.e]
               /\ UNCHANGED <<conversation_context, debate_history,
                              selected_paper>>
          ELSE IF groq_top.arxiv_id = gemini_top.arxiv_id
          THEN /\ selected_paper' = ("selection_method" :> "unanimous")
                                      @@ ("debate_history" :> <<>>)
                                      @@ groq_top
               /\ pc' = "selected"
               /\ UNCHANGED <<conversation_context, debate_history, raised>>
          ELSE /\ conversation_context' = <<>>
               /\ debate_history' = <<>>
               /\ pc' = "round_a"
               /\ UNCHANGED <<selected_paper, raised>>
    /\ UNCHANGED <<papers, groq_papers, gemini_papers, i, scored_papers,
                   groq_scored, gemini_scored, groq_served, gemini_served,
                   calls, groq_argument, gemini_argument, debate_served>>

\* Variant of RoundA: when the call fails the debate goes straight to the
\* decision.
RoundA_SkipOnFailure ==
    /\ pc = "round_a"
    /\ \E resp \in ArgumentResponses :
         LET arg == _groq_present_case(groq_top, gemini_top, resp)
         IN /\ groq_argument' = arg
            /\ conversation_context' =
                   Append(conversation_context,
                          [role |-> "Agent A (Groq)", content |-> arg,
                           round |-> 1])
            /\ debate_history' =
                   Append(debate_history,
                          [agent |-> "Groq", round |-> 1, argument |-> arg])
            /\ debate_served' = Append(debate_served, resp)
            /\ pc' = IF resp.kind = "text" THEN "round_b" ELSE "adjudicate"
    /\ calls' = Append(calls, [api |-> "groq", op |-> "round_a",
                               prompt |-> groq_prompt(groq_top, gemini_top)])
    /\ UNCHANGED <<papers, groq_papers, gemini_papers, i, scored_papers,
                   groq_scored, gemini_scored, groq_served, gemini_served,
                   gemini_argument, selected_paper, raised>>

\* Round 1: Groq presents its case.
RoundA ==
    /\ pc = "round_a"
    /\ \E resp \in ArgumentResponses :
         LET arg == _groq_present_case(groq_top, gemini_top, resp)
         IN /\ groq_argument' = arg
            /\ conversation_context' =
                   Append(conversation_context,
                          [role |-> "Agent A (Groq)", content |-> arg,
                           round |-> 1])
            /\ debate_history' =
                   Append(debate_history,
                          [agent |-> "Groq", round |-> 1, argument |-> arg])
            /\ debate_served' = Append(debate_served, resp)
    /\ calls' = Append(calls, [api |-> "groq", op |-> "round_a",
                               prompt |-> groq_prompt(groq_top, gemini_top)])
    /\ pc' = "round_b"
    /\ UNCHANGED <<papers, groq_papers, gemini_papers, i, scored_papers,
                   groq_scored, gemini_scored, groq_served, gemini_served,
                   gemini_argument, selected_paper, raised>>

\* Variant of RoundB: a failed call is issued a second time.
RoundB_Retry ==
    /\ pc = "round_b"
    /\ \E resp \in ArgumentResponses :
         LET arg == _gemini_present_case(gemini_top, groq_top, groq_argument,
                                         resp)
             call == [api |-> "gemini", op |-> "round_b",
                      prompt |-> gemini_prompt(gemini_top, groq_top,
                                               groq_argument)]
         IN /\ gemini_argument' = arg
            /\ conversation_context' =
                   Append(conversation_context,
                          [role |-> "Agent B (Gemini)", content |-> arg,
                           round |-> 2])
            /\ debate_history' =
                   Append(debate_history,
                          [agent |-> "Gemini", round |-> 2, argument |-> arg])
            /\ debate_served' = Append(debate_served, resp)
            /\ calls' = IF resp.kind = "text" THEN Append(calls, call)
                        ELSE Append(Append(calls, call), call)
    /\ pc' = "adjudicate"
    /\ UNCHANGED <<papers, groq_papers, gemini_papers, i, scored_papers,
                   groq_scored, gemini_scored, groq_served, gemini_served,
                   groq_argument, selected_paper, raised>>

\* Round 2: Gemini presents its case.
RoundB ==
    /\ pc = "round_b"
    /\ \E resp \in ArgumentResponses :
         LET arg == _gemini_present_case(gemini_top, groq_top, groq_argument,
                                         resp)
         IN /\ gemini_argument' = arg
            /\ conversation_context' =
                   Append(conversation_context,
                          [role |-> "Agent B (Gemini)", content |-> arg,
                           round |-> 2])
            /\ debate_history' =
                   Append(debate_history,
                          [agent |-> "Gemini", round |-> 2, argument |-> arg])
            /\ debate_served' = Append(debate_served, resp)
    /\ calls' = Append(calls,
                       [api |-> "gemini", op |-> "round_b",
                        prompt |-> gemini_prompt(gemini_top, groq_top,
                                                 groq_argument)])
    /\ pc' = "adjudicate"
    /\ UNCHANGED <<papers, groq_papers, gemini_papers, i, scored_papers,
                   groq_scored, gemini_scored, groq_served, gemini_served,
                   groq_argument, selected_paper, raised>>

\* Round 3 and the return: the decision is made, recorded and mapped to a
\* paper.
Adjudicate(R) ==
    /\ pc = "adjudicate"
    /\ \E resp \in R :
         LET final_decision == _make_final_decision(groq_top, gemini_top, resp)
             history == Append(debate_history,
                               [agent |-> "Consensus", round |-> 3,
                                decision |-> final_decision])
             result == debate_result(groq_top, gemini_top, history,
                                     final_decision)
         IN /\ debate_history' = history
            /\ debate_served' = Append(debate_served, resp)
            /\ IF result.ok
               THEN /\ selected_paper' = result.v
                    /\ pc' = "selected"
                    /\ UNCHANGED raised
               ELSE /\ pc' = "pipeline_error"
                    /\ raised' = [at |-> "select_final_paper", e |-> result.e]
                    /\ UNCHANGED selected_paper
    /\ calls' = Append(calls,
                       [api |-> "gemini", op |-> "adjudicate",
                        prompt |-> decision_prompt(groq_top, gemini_top,
                                                   groq_argument,
                                                   gemini_argument)])
    /\ UNCHANGED <<papers, groq_papers, gemini_papers, i, scored_papers,
                   groq_scored, gemini_scored, groq_served, gemini_served,
                   conversation_context, groq_argument, gemini_argument>>

(***************************************************************************)
(* Spec: one run of the pipeline from the fetch to the selected paper.     *)
(***************************************************************************)
Init ==
    /\ pc = "fetch"
    /\ papers = Unset
    /\ groq_papers = Unset
    /\ gemini_papers = Unset
    /\ i = 1
    /\ scored_papers = <<>>
    /\ groq_scored = Unset
    /\ gemini_scored = Unset
    /\ groq_served = <<>>
    /\ gemini_served = <<>>
    /\ calls = <<>>
    /\ conversation_context = <<>>
    /\ debate_history = Unset
    /\ groq_argument = Unset
    /\ gemini_argument = Unset
    /\ selected_paper = Unset
    /\ debate_served = <<>>
    /\ raised = Unset

\* split_papers gives the second sub-batch at least one paper of a non-empty
\* list, so run never calls score_with_gemini on an empty batch.
Next ==
    \/ Fetch
    \/ Split
    \/ ScoreGroqEmpty
    \/ ScoreGroqStep(RunScoreResponses)
    \/ ScoreGeminiStep(RunScoreResponses)
    \/ TopScores
    \/ SelectStart
    \/ RoundA
    \/ RoundB
    \/ Adjudicate(DecisionResponses)

Spec == Init /\ [][Next]_vars

\* The same run under the assumption that every external call returns or
\* fails and every local step is taken: no enabled step is put off forever.
SpecFair == Spec /\ WF_vars(Next)

(***************************************************************************)
(* SpecTotal: one paper scored by either backend, over every score object  *)
(* whose four criteria lie on the scale.                                   *)
(***************************************************************************)
OnScaleResponses ==
    {Response("text", <<Doc(Scores(a, b, c, d, "on scale"))>>) :
        a \in SCALE_MIN..SCALE_MAX, b \in SCALE_MIN..SCALE_MAX,
        c \in SCALE_MIN..SCALE_MAX, d \in SCALE_MIN..SCALE_MAX}

InitTotal ==
    /\ pc = "score_groq"
    /\ \/ groq_papers = <<Paper(1)>> /\ gemini_papers = <<>>
       \/ groq_papers = <<>> /\ gemini_papers = <<Paper(1)>>
    /\ papers = groq_papers \o gemini_papers
    /\ i = 1
    /\ scored_papers = <<>>
    /\ groq_scored = <<>>
    /\ gemini_scored = <<>>
    /\ groq_served = <<>>
    /\ gemini_served = <<>>
    /\ calls = <<>>
    /\ conversation_context = <<>>
    /\ debate_history = Unset
    /\ groq_argument = Unset
    /\ gemini_argument = Unset
    /\ selected_paper = Unset
    /\ debate_served = <<>>
    /\ raised = Unset

NextTotal ==
    \/ ScoreGroqEmpty
    \/ ScoreGroqStep(OnScaleResponses)
    \/ ScoreGeminiEmpty
    \/ ScoreGeminiStep(OnScaleResponses)

SpecTotal == InitTotal /\ [][NextTotal]_vars

(***************************************************************************)
(* SpecFence: debates whose arbiter answers a well-formed decision inside  *)
(* a markdown code fence.                                                  *)
(***************************************************************************)
DecisionOf(selected, reasoning, confidence) ==
    JObj([selected |-> JStr(<<Word(selected)>>),
          reasoning |-> JStr(reasoning),
          confidence |-> JStr(<<Word(confidence)>>)])

\* Well-formed decisions; the second reasoning quotes a fenced snippet.
FenceDecisions ==
    {DecisionOf(sel, why, conf) :
        sel \in {"groq", "gemini"},
        why \in {<<Word("A is feasible")>>,
                 <<Word("A ships its code in a "), TICKS, Word("python"),
                   TICKS, Word(" block")>>},
        conf \in {"high", "medium", "low"}}

\* The text before the fence, the language tag and the text after the fence.
FenceBefore ==
    {<<>>, <<Word("My decision:"), WS>>,
     <<Word("Compare "), TICKS, Word("A"), TICKS, Word(" and B:"), WS>>}
FenceTag   == {<<>>, <<Word("json")>>}
FenceAfter == {<<>>, <<WS, Word("Thanks")>>}

Wrap(before, tag, body, after) ==
    before \o <<TICKS>> \o tag \o <<WS>> \o body \o <<WS, TICKS>> \o after

Wrappings(d) ==
    {Wrap(before, tag, Dumps(d), after) :
        before \in FenceBefore, tag \in FenceTag, after \in FenceAfter}

FenceResponses ==
    UNION {{Response("text", t) : t \in Wrappings(d)} : d \in FenceDecisions}

FenceScoreResponses ==
    { Response("raise", <<Word("Connection error.")>>),
      Response("text", <<Doc(Scores(8, 8, 8, 8, "solid"))>>) }

\* The run has scored one paper with each backend and enters
\* select_final_paper.
InitFence ==
    /\ pc = "select"
    /\ papers = <<Paper(1), Paper(2)>>
    /\ groq_papers = <<Paper(1)>>
    /\ gemini_papers = <<Paper(2)>>
    /\ i = 1
    /\ scored_papers = <<>>
    /\ \E ra \in FenceScoreResponses, rb \in FenceScoreResponses :
         /\ groq_served = <<ra>>
         /\ gemini_served = <<rb>>
         /\ groq_scored = score_with_groq(groq_papers, groq_served)
         /\ gemini_scored = score_with_gemini(gemini_papers, gemini_served)
    /\ calls = <<[api |-> "groq", op |-> "score", arxiv_id |-> 1],
                 [api |-> "gemini", op |-> "score", arxiv_id |-> 2]>>
    /\ conversation_context = <<>>
    /\ debate_history = Unset
    /\ groq_argument = Unset
    /\ gemini_argument = Unset
    /\ selected_paper = Unset
    /\ debate_served = <<>>
    /\ raised = Unset

NextFence ==
    \/ SelectStart
    \/ RoundA
    \/ RoundB
    \/ Adjudicate(FenceResponses)

SpecFence == InitFence /\ [][NextFence]_vars

(***************************************************************************)
(* SpecInstance: any number of select_final_paper calls on one AgentDebate *)
(* instance.  calls, debate_served, selected_paper and raised are those of *)
(* the current call; groq_argument and gemini_argument keep the arguments  *)
(* of the most recent debate.                                              *)
(***************************************************************************)
InstanceDecisionResponses ==
    { Response("raise", <<Word("Connection error.")>>),
      Response("text", <<Doc(Decision("groq", "A is feasible", "high"))>>),
      Response("text", <<Doc(JObj([selected |-> JStr(<<Word("groq")>>)]))>>) }

ScoreCallsOfOne(id) ==
    <<[api |-> "groq", op |-> "score", arxiv_id |-> 1],
      [api |-> "gemini", op |-> "score", arxiv_id |-> id]>>

InitInstance ==
    /\ pc = "select"
    /\ \E id \in 1..MaxId, ra \in RunScoreResponses, rb \in RunScoreResponses :
         /\ papers = <<Paper(1), Paper(id)>>
         /\ groq_papers = <<Paper(1)>>
         /\ gemini_papers = <<Paper(id)>>
         /\ groq_served = <<ra>>
         /\ gemini_served = <<rb>>
         /\ groq_scored = score_with_groq(groq_papers, groq_served)
         /\ gemini_scored = score_with_gemini(gemini_papers, gemini_served)
         /\ calls = ScoreCallsOfOne(id)
    /\ i = 1
    /\ scored_papers = <<>>
    /\ conversation_context = <<>>
    /\ debate_history = Unset
    /\ groq_argument = Unset
    /\ gemini_argument = Unset
    /\ selected_paper = Unset
    /\ debate_served = <<>>
    /\ raised = Unset

\* The caller scores two more papers and calls select_final_paper again on
\* the same instance, after the previous call returned or raised.
SelectAgain ==
    /\ \/ pc = "selected"
       \/ pc = "pipeline_error" /\ raised.at = "select_final_paper"
    /\ \E id \in 1..MaxId, ra \in RunScoreResponses, rb \in RunScoreResponses :
         /\ papers' = <<Paper(1), Paper(id)>>
         /\ groq_papers' = <<Paper(1)>>
         /\ gemini_papers' = <<Paper(id)>>
         /\ groq_served' = <<ra>>
         /\ gemini_served' = <<rb>>
         /\ groq_scored' = score_with_groq(<<Paper(1)>>, <<ra>>)
         /\ gemini_scored' = score_with_gemini(<<Paper(id)>>, <<rb>>)
         /\ calls' = ScoreCallsOfOne(id)
    /\ pc' = "select"
    /\ debate_history' = Unset
    /\ selected_paper' = Unset
    /\ debate_served' = <<>>
    /\ raised' = Unset
    /\ UNCHANGED <<i, scored_papers, conversation_context, groq_argument,
                   gemini_argument>>

NextInstance ==
    \/ SelectStart
    \/ RoundA
    \/ RoundB
    \/ Adjudicate(InstanceDecisionResponses)
    \/ SelectAgain

SpecInstance == InitInstance /\ [][NextInstance]_vars

(***************************************************************************)
(* Properties of the scoring rounds.                                       *)
(***************************************************************************)
GroqReturned   == pc \notin {"fetch", "no_papers", "split", "score_groq"}
GeminiReturned == GroqReturned /\ pc # "score_gemini"

CriteriaSet == {CRITERIA[k] : k \in 1..Len(CRITERIA)}

Count(list, id) == Cardinality({k \in 1..Len(list) : list[k].arxiv_id = id})
Ids(list)       == {list[k].arxiv_id : k \in 1..Len(list)}

\* The JSON documents a backend answer carries.
DocsIn(resp) ==
    {resp.content[k].doc :
        k \in {n \in 1..Len(resp.content) : DOMAIN resp.content[n] = {"doc"}}}

\* The call failed, or what it returned holds no score object with all four
\* criteria.
NoScoreSet(resp) ==
    \/ resp.kind # "text"
    \/ \A v \in DocsIn(resp) : ~IsObj(v) \/ ~(CriteriaSet \subseteq DOMAIN v.obj)

OnePerPaper(batch, out, scoresKey, totalKey) ==
    /\ Len(out) = Len(batch)
    /\ \A id \in Ids(batch) \cup Ids(out) : Count(out, id) = Count(batch, id)
    /\ \A k \in 1..Len(out) : {scoresKey, totalKey} \subseteq DOMAIN out[k]

\* C1: a scoring round returns exactly one scored paper per input paper:
\* same length, same identifiers with the same multiplicity, whatever the
\* backend answered for each paper.
C1_OneScoredPaperPerInput ==
    /\ GroqReturned =>
         OnePerPaper(groq_papers, groq_scored,
                     "groq_scores", "groq_total_score")
    /\ GeminiReturned =>
         OnePerPaper(gemini_papers, gemini_scored,
                     "gemini_scores", "gemini_total_score")

\* A returned batch of three whose answers were a raised call, a text
\* without any score object and a complete score object.
C1_Witness ==
    /\ GroqReturned
    /\ Len(groq_papers) = 3
    /\ \E a, b, c \in 1..3 :
         /\ groq_served[a].kind = "raise"
         /\ groq_served[b].kind = "text" /\ DocsIn(groq_served[b]) = {}
         /\ groq_try(groq_served[c]).ok

SortedDesc(out, totalKey) ==
    \A k \in 1..(Len(out) - 1) : out[k][totalKey] >= out[k + 1][totalKey]

PosIn(batch, id) == CHOOSE k \in 1..Len(batch) : batch[k].arxiv_id = id

TiesInBatchOrder(batch, out, totalKey) ==
    \A a, b \in 1..Len(out) :
        (a < b /\ out[a][totalKey] = out[b][totalKey])
            => PosIn(batch, out[a].arxiv_id) < PosIn(batch, out[b].arxiv_id)

ScoredOf(out, id) == out[CHOOSE k \in 1..Len(out) : out[k].arxiv_id = id]

IsDefaultScoreSet(scores, total) ==
    /\ IsObj(scores)
    /\ DOMAIN scores.obj = CriteriaSet \cup {"reasoning", "overall_impression"}
    /\ \A c \in CriteriaSet : scores.obj[c] = JInt(5)
    /\ scores.obj["overall_impression"] = JStr(<<Word("Unable to score")>>)
    /\ IsStr(scores.obj["reasoning"])
    /\ scores.obj["reasoning"].str # <<>>
    /\ Head(scores.obj["reasoning"].str) = Word("Error during scoring: ")
    /\ total = 500

\* The diagnostic of a raised call is the message of its exception.
NamesFailure(scores, resp) ==
    resp.kind = "raise" =>
        scores.obj["reasoning"].str
            = <<Word("Error during scoring: ")>> \o resp.content

\* C4: a paper whose evaluator call failed, or whose payload holds no score
\* object with all four criteria, carries the default ScoreSet (every
\* criterion 5, "Unable to score", reasoning "Error during scoring: ..."
\* followed by the failure) and the total 5.0.
C4_FailureGetsDefaultScoreSet ==
    /\ GroqReturned =>
         \A k \in 1..Len(groq_papers) :
             NoScoreSet(groq_served[k]) =>
                 LET sp == ScoredOf(groq_scored, groq_papers[k].arxiv_id)
                 IN /\ IsDefaultScoreSet(sp.groq_scores, sp.groq_total_score)
                    /\ NamesFailure(sp.groq_scores, groq_served[k])
    /\ GeminiReturned =>
         \A k \in 1..Len(gemini_papers) :
             NoScoreSet(gemini_served[k]) =>
                 LET sp == ScoredOf(gemini_scored, gemini_papers[k].arxiv_id)
                 IN /\ IsDefaultScoreSet(sp.gemini_scores,
                                         sp.gemini_total_score)
                    /\ NamesFailure(sp.gemini_scores, gemini_served[k])

\* A raised call and a score object with a criterion missing in one batch.
C4_Witness ==
    /\ GeminiReturned
    /\ \E a, b \in 1..Len(gemini_papers) :
         /\ gemini_served[a].kind = "raise"
         /\ gemini_served[b].kind = "text"
         /\ DocsIn(gemini_served[b]) = {MissingCriterion}

\* Answers that stand for a failed evaluator call.
FailedCalls == {Response("raise", <<Word("Request timed out.")>>)}

Without(out, id) == SelectSeq(out, LAMBDA sp : sp.arxiv_id # id)

ValidScoreSet(scores) ==
    /\ IsObj(scores)
    /\ CriteriaSet \cup {"reasoning", "overall_impression"}
           \subseteq DOMAIN scores.obj
    /\ \A c \in CriteriaSet :
           /\ IsInt(scores.obj[c])
           /\ scores.obj[c].int >= SCALE_MIN
           /\ scores.obj[c].int <= SCALE_MAX
    /\ IsStr(scores.obj["reasoning"])
    /\ IsStr(scores.obj["overall_impression"])

\* C7: every ScoreSet attached to a returned paper holds all four criteria
\* as integers in [1,10], a reasoning text and an overall_impression.
C7_AttachedScoreSetsValid ==
    /\ GroqReturned =>
         \A k \in 1..Len(groq_scored) : ValidScoreSet(groq_scored[k].groq_scores)
    /\ GeminiReturned =>
         \A k \in 1..Len(gemini_scored) :
             ValidScoreSet(gemini_scored[k].gemini_scores)

OnScale(scores) ==
    /\ IsObj(scores)
    /\ CriteriaSet \subseteq DOMAIN scores.obj
    /\ \A c \in CriteriaSet :
           /\ IsInt(scores.obj[c])
           /\ scores.obj[c].int >= SCALE_MIN
           /\ scores.obj[c].int <= SCALE_MAX

\* C6: with the configured weights, a ScoreSet whose four criteria are
\* integers in [1,10] has a weighted total of at least 1 and at most 10
\* (100 and 1000 hundredths).
C6_WeightedTotalInRange ==
    /\ \A c \in CriteriaSet : SCORING_WEIGHTS[c] > 0 /\ SCORING_WEIGHTS[c] <= 100
    /\ SCORING_WEIGHTS["problem_relevance"] + SCORING_WEIGHTS["dataset_quality"]
           + SCORING_WEIGHTS["model_novelty"]
           + SCORING_WEIGHTS["real_world_impact"] = 100
    /\ DOMAIN SCORING_WEIGHTS = CriteriaSet
    /\ GroqReturned =>
         \A k \in 1..Len(groq_scored) :
             OnScale(groq_scored[k].groq_scores) =>
                 /\ groq_scored[k].groq_total_score >= 100
                 /\ groq_scored[k].groq_total_score <= 1000
    /\ GeminiReturned =>
         \A k \in 1..Len(gemini_scored) :
             OnScale(gemini_scored[k].gemini_scores) =>
                 /\ gemini_scored[k].gemini_total_score >= 100
                 /\ gemini_scored[k].gemini_total_score <= 1000

\* The backend returned four different criterion values and the upper end of
\* the scale among them.
C6_Witness ==
    /\ GeminiReturned
    /\ Len(gemini_scored) = 1
    /\ OnScale(gemini_scored[1].gemini_scores)
    /\ gemini_scored[1].gemini_scores.obj["problem_relevance"] = JInt(10)
    /\ gemini_scored[1].gemini_scores.obj["dataset_quality"] = JInt(1)
    /\ gemini_scored[1].gemini_scores.obj["model_novelty"] = JInt(7)
    /\ gemini_scored[1].gemini_scores.obj["real_world_impact"] = JInt(4)
    /\ gemini_scored[1].gemini_total_score = 550

(***************************************************************************)
(* Properties of select_final_paper.                                       *)
(***************************************************************************)
\* select_final_paper was called and has returned or raised.
SelectFinished ==
    \/ pc = "selected"
    \/ pc = "pipeline_error" /\ raised.at = "select_final_paper"

TopsAgree == groq_top.arxiv_id = gemini_top.arxiv_id

\* The external calls of the debate, in order.
DebateCalls ==
    SelectSeq(calls, LAMBDA c : c.op \in {"round_a", "round_b", "adjudicate"})

\* C8: when both scored lists have the same top identifier,
\* select_final_paper returns that paper with selection_method "unanimous",
\* an empty debate transcript, no decision attached, and no external call.
C8_UnanimousShortcut ==
    (SelectFinished /\ TopsAgree) =>
        /\ pc = "selected"
        /\ selected_paper.selection_method = "unanimous"
        /\ selected_paper.debate_history = <<>>
        /\ "final_decision" \notin DOMAIN selected_paper
        /\ \A f \in DOMAIN groq_top : selected_paper[f] = groq_top[f]
        /\ DebateCalls = <<>>

\* C9: when the top identifiers differ, select_final_paper returns
\* selection_method "debate" with exactly three turns (round 1 by Groq with an
\* argument, round 2 by Gemini with an argument, round 3 by Consensus with the
\* decision) and a non-null decision attached, whatever the three calls
\* answered.
C9_DebateThreeTurns ==
    (SelectFinished /\ ~TopsAgree) =>
        /\ pc = "selected"
        /\ selected_paper.selection_method = "debate"
        /\ LET h == selected_paper.debate_history
           IN /\ Len(h) = 3
              /\ h[1].agent = "Groq" /\ h[1].round = 1
              /\ h[1].argument = groq_argument
              /\ h[2].agent = "Gemini" /\ h[2].round = 2
              /\ h[2].argument = gemini_argument
              /\ h[3].agent = "Consensus" /\ h[3].round = 3
              /\ h[3].decision = selected_paper.final_decision
        /\ ~IsNull(selected_paper.final_decision)

\* The adjudication call raised or returned nothing that holds a JSON
\* document.
AdjudicationFailed ==
    /\ Len(debate_served) = 3
    /\ \/ debate_served[3].kind # "text"
       \/ DocsIn(debate_served[3]) = {}

FallbackReasoning ==
    JStr(<<Word("Selected based on higher score after debate error.")>>)

\* C10: when the adjudication call fails or its answer cannot be parsed, the
\* decision has confidence "medium" and the fixed reasoning, it selects the
\* candidate with the strictly higher total, and that candidate is the
\* returned paper.
C10_AdjudicationFallback ==
    (SelectFinished /\ AdjudicationFailed) =>
        /\ pc = "selected"
        /\ selected_paper.selection_method = "debate"
        /\ LET d == selected_paper.final_decision
               a == groq_top.groq_total_score
               b == gemini_top.gemini_total_score
           IN /\ IsObj(d)
              /\ DOMAIN d.obj = {"selected", "reasoning", "confidence"}
              /\ d.obj["confidence"] = JStr(<<Word("medium")>>)
              /\ d.obj["reasoning"] = FallbackReasoning
              /\ a > b =>
                   /\ d.obj["selected"] = JStr(<<Word("groq")>>)
                   /\ \A f \in DOMAIN groq_top :
                          selected_paper[f] = groq_top[f]
              /\ b > a =>
                   /\ d.obj["selected"] = JStr(<<Word("gemini")>>)
                   /\ \A f \in DOMAIN gemini_top :
                          selected_paper[f] = gemini_top[f]

\* The adjudication call raised with candidate A ahead of candidate B.
C10_Witness ==
    /\ pc = "selected"
    /\ AdjudicationFailed
    /\ debate_served[3].kind = "raise"
    /\ groq_top.groq_total_score > gemini_top.gemini_total_score
    /\ selected_paper.title = groq_top.title

\* select_final_paper returned the result of a debate.
DebateReturned ==
    pc = "selected" /\ selected_paper.selection_method = "debate"

GROQ   == JStr(<<Word("groq")>>)
GEMINI == JStr(<<Word("gemini")>>)

\* C11: whenever a debate result is returned, the returned paper is
\* candidate A exactly when the decision's selected is "groq" and candidate B
\* exactly when it is "gemini".
C11_DecisionMappedToCandidate ==
    DebateReturned =>
        LET d == selected_paper.final_decision
        IN /\ selected_paper.arxiv_id = groq_top.arxiv_id
                  <=> d.obj["selected"] = GROQ
           /\ selected_paper.arxiv_id = gemini_top.arxiv_id
                  <=> d.obj["selected"] = GEMINI

WellFormedDecision(d) ==
    /\ IsObj(d)
    /\ DOMAIN d.obj = {"selected", "reasoning", "confidence"}
    /\ d.obj["selected"] \in {GROQ, GEMINI}
    /\ IsStr(d.obj["reasoning"])
    /\ d.obj["confidence"] \in {JStr(<<Word("high")>>), JStr(<<Word("medium")>>),
                                JStr(<<Word("low")>>)}

\* The arbiter answered with JSON that is not a well-formed decision.
ArbiterMalformed ==
    /\ Len(debate_served) = 3
    /\ debate_served[3].kind = "text"
    /\ DocsIn(debate_served[3]) # {}
    /\ \A v \in DocsIn(debate_served[3]) : ~WellFormedDecision(v)

\* C12: every decision in a returned result has exactly the fields selected
\* (groq or gemini), reasoning (a text) and confidence (high, medium or low),
\* and an arbiter answer that is JSON of another shape is replaced by the
\* score-comparison fallback decision.
C12_DecisionWellFormed ==
    /\ DebateReturned => WellFormedDecision(selected_paper.final_decision)
    /\ (SelectFinished /\ ArbiterMalformed) =>
           /\ pc = "selected"
           /\ selected_paper.final_decision
                  = fallback_decision(groq_top, gemini_top)

\* C13: select_final_paper never raises on two non-empty scored lists,
\* whatever the three debate calls answer.
C13_SelectNeverRaises ==
    pc = "pipeline_error" => raised.at # "select_final_paper"

\* C14: every call of select_final_paper on non-empty lists eventually
\* returns one selected paper with a selection_method.
C14_EventuallySelected ==
    [](pc = "select" =>
          <>(/\ pc = "selected"
             /\ selected_paper.selection_method \in {"unanimous", "debate"}
             /\ selected_paper.arxiv_id
                    \in {groq_top.arxiv_id, gemini_top.arxiv_id}))

\* The external calls of one kind, in the order they were issued.
CallsOf(op) == SelectSeq(calls, LAMBDA c : c.op = op)

\* The argument call of round k (1 or 2) failed: it raised or gave no text.
ArgumentCallFailed(k) ==
    Len(debate_served) >= k /\ debate_served[k].kind # "text"

\* C15: when the argument call of round 1 or 2 fails, the round's argument is
\* the fixed fallback sentence followed by the reasoning of that side's own
\* candidate, the call is issued once, the turn is recorded and the debate
\* moves on to the next round.
C15_ArgumentFallback ==
    /\ ArgumentCallFailed(1) =>
           /\ groq_argument
                  = <<Word("I believe my paper is superior due to ")>>
                      \o FormatValue(groq_top.groq_scores.obj["reasoning"])
           /\ debate_history[1]
                  = [agent |-> "Groq", round |-> 1, argument |-> groq_argument]
           /\ Len(CallsOf("round_a")) = 1
           /\ pc = "round_b" \/ Len(CallsOf("round_b")) = 1
    /\ ArgumentCallFailed(2) =>
           /\ gemini_argument
                  = <<Word("My paper is superior because ")>>
                      \o FormatValue(gemini_top.gemini_scores.obj["reasoning"])
           /\ debate_history[2]
                  = [agent |-> "Gemini", round |-> 2,
                     argument |-> gemini_argument]
           /\ Len(CallsOf("round_b")) = 1
           /\ pc = "adjudicate" \/ Len(CallsOf("adjudicate")) = 1

C15_Witness ==
    /\ DebateReturned
    /\ ArgumentCallFailed(1)
    /\ ArgumentCallFailed(2)
    /\ groq_top.groq_scores.obj["reasoning"]
           # gemini_top.gemini_scores.obj["reasoning"]

\* The rounds entered so far, by the calls they issued.
DebateOps == [k \in 1..Len(DebateCalls) |-> DebateCalls[k].op]

ROUNDS == <<"round_a", "round_b", "adjudicate">>

\* C16: the debate moves round_a, round_b, adjudicate and then ends; a round
\* is entered only from the one before it, after that one recorded its turn,
\* no step goes back, and a debate that ends has entered each round once.
C16_StrictlySequential ==
    [][/\ pc' = "round_a" => pc \in {"select", "round_a"}
       /\ pc' = "round_b" => pc \in {"round_a", "round_b"}
       /\ pc' = "adjudicate" => pc \in {"round_b", "adjudicate"}
       /\ pc = "round_a" => pc' \in {"round_a", "round_b"}
       /\ pc = "round_b" => pc' \in {"round_b", "adjudicate"}
       /\ pc = "adjudicate" =>
              pc' \in {"adjudicate", "selected", "pipeline_error"}
       /\ (pc = "round_a" /\ pc' = "round_b") =>
              /\ Len(debate_history') = 1
              /\ debate_history'[1].argument = groq_argument'
       /\ (pc = "round_b" /\ pc' = "adjudicate") =>
              /\ Len(debate_history') = 2
              /\ debate_history'[2].argument = gemini_argument'
       /\ DebateOps' = SubSeq(ROUNDS, 1, Len(DebateOps'))
       /\ (pc = "adjudicate" /\ pc' # "adjudicate") => DebateOps' = ROUNDS
      ]_vars

C16_Witness ==
    /\ DebateReturned
    /\ DebateOps = ROUNDS
    /\ debate_served[2].kind = "raise"

\* C17: the opponent argument in the request of round 2 is the text of
\* transcript turn 1, and the two arguments in the request of round 3 are
\* the texts of transcript turns 1 and 2, fallback texts included.
C17_ArgumentsPassedOn ==
    /\ \A k \in 1..Len(CallsOf("round_b")) :
           CallsOf("round_b")[k].prompt.opponent_argument
               = debate_history[1].argument
    /\ \A k \in 1..Len(CallsOf("adjudicate")) :
           /\ CallsOf("adjudicate")[k].prompt.a_argument
                  = debate_history[1].argument
           /\ CallsOf("adjudicate")[k].prompt.b_argument
                  = debate_history[2].argument

C17_Witness ==
    /\ Len(CallsOf("adjudicate")) = 1
    /\ debate_served[1].kind = "raise"
    /\ debate_served[2].kind = "text"
    /\ Len(debate_history) = 3

\* A candidate that differs from c in what the opposing agent is not shown:
\* another analysis and another abstract, and for candidate A another total.
OtherReasoning(scores) ==
    JObj([scores.obj EXCEPT
              !["reasoning"] = JStr(<<Word("A different analysis")>>)])

HiddenB(c) ==
    {[c EXCEPT !.abstract = abs, !.gemini_scores = sc] :
        abs \in {c.abstract, <<Word("Another abstract")>>},
        sc \in {c.gemini_scores, OtherReasoning(c.gemini_scores)}}

HiddenA(c) ==
    {[c EXCEPT !.abstract = abs, !.groq_scores = sc, !.groq_total_score = t] :
        abs \in {c.abstract, <<Word("Another abstract")>>},
        sc \in {c.groq_scores, OtherReasoning(c.groq_scores)},
        t \in {c.groq_total_score, 975}}

\* C18: the request of round 1 is the same for every candidate B with the
\* same title and total (other reasoning, other abstract), and the request
\* of round 2 is the same for every candidate A with the same title, given
\* the round-1 argument (other total, other reasoning, other abstract).
C18_InformationWithheld ==
    /\ \A k \in 1..Len(CallsOf("round_a")) : \A b \in HiddenB(gemini_top) :
           CallsOf("round_a")[k].prompt = groq_prompt(groq_top, b)
    /\ \A k \in 1..Len(CallsOf("round_b")) : \A a \in HiddenA(groq_top) :
           CallsOf("round_b")[k].prompt
               = gemini_prompt(gemini_top, a, groq_argument)

C18_Witness ==
    /\ pc = "adjudicate"
    /\ Len(CallsOf("round_a")) = 1
    /\ Len(CallsOf("round_b")) = 1
    /\ Cardinality(HiddenB(gemini_top)) = 4
    /\ Cardinality(HiddenA(groq_top)) = 8

\* The identifiers of the papers one backend was asked to score, in order.
ScoreCallIds(api) ==
    LET cs == SelectSeq(calls, LAMBDA c : c.op = "score" /\ c.api = api)
    IN [k \in 1..Len(cs) |-> cs[k].arxiv_id]

BatchIds(batch) == [k \in 1..Len(batch) |-> batch[k].arxiv_id]

\* C19: a scoring round issues one call per paper of its batch, in batch
\* order; a debate issues its three calls once each, whichever of them
\* fail; no answer, failed or not, is followed by a second call.
C19_NoRetry ==
    /\ GroqReturned => ScoreCallIds("groq") = BatchIds(groq_papers)
    /\ GeminiReturned => ScoreCallIds("gemini") = BatchIds(gemini_papers)
    /\ Len(ScoreCallIds("groq")) = Len(groq_served)
    /\ Len(ScoreCallIds("gemini")) = Len(gemini_served)
    /\ Len(DebateCalls) = Len(debate_served)
    /\ (SelectFinished /\ debate_served # <<>>) => DebateOps = ROUNDS

C19_Witness ==
    /\ DebateReturned
    /\ Len(gemini_papers) = 2
    /\ gemini_served[1].kind = "raise"
    /\ \A k \in 1..3 : debate_served[k].kind = "raise"
    /\ Len(calls) = Len(groq_papers) + Len(gemini_papers) + 3

\* The fields of a debate result: of the returned dict, of each transcript
\* turn, and of the decision with the kind of each value.
DecisionShape(d) ==
    IF IsObj(d) THEN [k \in DOMAIN d.obj |-> DOMAIN d.obj[k]] ELSE DOMAIN d

TurnShape(t) ==
    IF "decision" \in DOMAIN t
    THEN [fields |-> DOMAIN t, decision |-> DecisionShape(t.decision)]
    ELSE [fields |-> DOMAIN t, decision |-> {}]

ResultShape(r) ==
    [fields |-> DOMAIN r,
     turns |-> [k \in 1..Len(r.debate_history) |->
                    TurnShape(r.debate_history[k])],
     decision |-> DecisionShape(r.final_decision)]

\* What select_final_paper returns for the same two tops when all three
\* calls succeed and the arbiter names the given side.
SuccessResult(side) ==
    LET said == Response("text", <<Word("My paper is the stronger one.")>>)
        a == _groq_present_case(groq_top, gemini_top, said)
        b == _gemini_present_case(gemini_top, groq_top, a, said)
        d == _make_final_decision(
                 groq_top, gemini_top,
                 Response("text", <<Doc(Decision(side, "It is stronger",
                                                 "high"))>>))
        history == <<[agent |-> "Groq", round |-> 1, argument |-> a],
                     [agent |-> "Gemini", round |-> 2, argument |-> b],
                     [agent |-> "Consensus", round |-> 3, decision |-> d]>>
    IN debate_result(groq_top, gemini_top, history, d).v

\* The third call failed: it raised, gave no text, or gave text without JSON.
DecisionCallFailed ==
    /\ Len(debate_served) = 3
    /\ debate_served[3].kind # "text" \/ DocsIn(debate_served[3]) = {}

\* C20: a debate result returned after any of the three calls failed has
\* the fields of the result of a debate whose calls all succeeded and that
\* selected the same side: the same keys of the dict, three turns with the
\* same keys, a decision with the same three text fields.
C20_FallbackSameStructure ==
    (DebateReturned
       /\ (ArgumentCallFailed(1) \/ ArgumentCallFailed(2)
             \/ DecisionCallFailed)) =>
        ResultShape(selected_paper)
            = ResultShape(SuccessResult(
                  IF selected_paper.arxiv_id = groq_top.arxiv_id
                  THEN "groq" ELSE "gemini"))

C20_Witness ==
    /\ DebateReturned
    /\ ArgumentCallFailed(1)
    /\ ArgumentCallFailed(2)
    /\ DecisionCallFailed
    /\ selected_paper.arxiv_id = gemini_top.arxiv_id
    /\ Len(selected_paper.debate_history) = 3

\* The two top candidates have exactly the same total.
TotalsTie == groq_top.groq_total_score = gemini_top.gemini_total_score

\* C21: when the adjudication call fails and the two totals are equal, the
\* fallback decision selects "groq" and candidate A is the returned paper.
C21_TieSelectsGroq ==
    (SelectFinished /\ AdjudicationFailed /\ TotalsTie) =>
        /\ DebateReturned
        /\ selected_paper.final_decision.obj["selected"] = GROQ
        /\ selected_paper.final_decision
               = fallback_decision(groq_top, gemini_top)
        /\ selected_paper.arxiv_id = groq_top.arxiv_id
        /\ selected_paper.groq_total_score = groq_top.groq_total_score

C21_Witness ==
    /\ DebateReturned
    /\ AdjudicationFailed
    /\ TotalsTie
    /\ groq_top.arxiv_id # gemini_top.arxiv_id
    /\ selected_paper.arxiv_id = groq_top.arxiv_id

\* C22: an arbiter answer that is a well-formed decision inside a code
\* fence (with or without the json tag, with or without text around the
\* fence) gives that decision, the same as the bare JSON text gives, and
\* not the fallback.
C22_FenceStripped ==
    (SelectFinished /\ Len(debate_served) = 3) =>
        \A d \in FenceDecisions :
            debate_served[3].content \in Wrappings(d) =>
                /\ DebateReturned
                /\ selected_paper.final_decision = d
                /\ selected_paper.final_decision
                       = _make_final_decision(groq_top, gemini_top,
                                              Response("text", Dumps(d)))

\* The stored total of p is the weighted sum of p's own ScoreSet.
TotalConsistent(p, scoresKey, totalKey) ==
    weighted_score(p[scoresKey]) = Ok(p[totalKey])

\* C23: for every paper a scoring round returned and for the paper
\* select_final_paper returned, the stored total equals the sum over the
\* criteria of weight times the score in the paper's own ScoreSet.
C23_TotalMatchesScoreSet ==
    /\ GroqReturned =>
         \A k \in 1..Len(groq_scored) :
             TotalConsistent(groq_scored[k], "groq_scores", "groq_total_score")
    /\ GeminiReturned =>
         \A k \in 1..Len(gemini_scored) :
             TotalConsistent(gemini_scored[k],
                             "gemini_scores", "gemini_total_score")
    /\ pc = "selected" =>
         IF "groq_total_score" \in DOMAIN selected_paper
         THEN TotalConsistent(selected_paper,
                              "groq_scores", "groq_total_score")
         ELSE TotalConsistent(selected_paper,
                              "gemini_scores", "gemini_total_score")

C23_Witness ==
    /\ DebateReturned
    /\ "gemini_total_score" \in DOMAIN selected_paper
    /\ selected_paper.gemini_total_score = 500
    /\ gemini_served[1].kind = "raise"
    /\ groq_top.groq_total_score = 800
    /\ Len(gemini_scored) = 2

\* The fields of a fetched paper, none of them a score field.
PaperFields == DOMAIN Paper(1)

IsInputBatch(batch) == \A k \in 1..Len(batch) : DOMAIN batch[k] = PaperFields

\* C24: a step of a scoring round leaves the fetched list and both input
\* batches as they were, their papers without score fields, and a step of
\* select_final_paper leaves both scored lists, and so both top candidates,
\* as they were: the three result fields are only on the returned copy.
C24_InputsNotMutated ==
    [][/\ pc \in {"score_groq", "score_gemini"} =>
              /\ papers' = papers
              /\ groq_papers' = groq_papers
              /\ gemini_papers' = gemini_papers
              /\ IsInputBatch(groq_papers')
              /\ IsInputBatch(gemini_papers')
       /\ pc = "score_gemini" => groq_scored' = groq_scored
       /\ pc \in {"select", "round_a", "round_b", "adjudicate"} =>
              /\ groq_scored' = groq_scored
              /\ gemini_scored' = gemini_scored
              /\ papers' = papers
              /\ \A f \in {"selection_method", "debate_history",
                           "final_decision"} :
                     /\ f \notin DOMAIN groq_scored'[1]
                     /\ f \notin DOMAIN gemini_scored'[1]
      ]_vars

C24_Witness ==
    /\ DebateReturned
    /\ Len(papers) = 3
    /\ papers = groq_papers \o gemini_papers
    /\ IsInputBatch(papers)
    /\ "final_decision" \in DOMAIN selected_paper
    /\ "final_decision" \notin DOMAIN groq_top
    /\ "final_decision" \notin DOMAIN gemini_top

\* The returned dict carries every field of the scored paper p unchanged,
\* and beside them only the fields of the result.
CarriesVerbatim(p) ==
    /\ \A f \in DOMAIN p : f \in DOMAIN selected_paper /\ selected_paper[f] = p[f]
    /\ DOMAIN selected_paper \ DOMAIN p
           \subseteq {"selection_method", "debate_history", "final_decision"}

\* C25: in every result of select_final_paper the returned paper is the
\* first paper of the Groq list or the first paper of the Gemini list, with
\* its identifier, title, ScoreSet and total unchanged; no paper further
\* down either list is returned.
C25_ReturnsATopCandidate ==
    pc = "selected" =>
        \/ CarriesVerbatim(groq_scored[1])
        \/ CarriesVerbatim(gemini_scored[1])

C25_Witness ==
    /\ DebateReturned
    /\ Len(gemini_scored) = 2
    /\ gemini_scored[2].arxiv_id # gemini_scored[1].arxiv_id
    /\ gemini_scored[2].gemini_total_score # gemini_scored[1].gemini_total_score
    /\ selected_paper.arxiv_id = gemini_scored[1].arxiv_id
    /\ selected_paper.final_decision.obj["selected"] = GEMINI

\* The run is past split_papers.
SplitDone == pc \notin {"fetch", "no_papers", "split"}

\* C26: when fetch_papers returned at least one paper, the two sub-batches
\* are both non-empty, the first followed by the second is the fetched list,
\* their sizes differ by at most one, and both scored lists handed to the
\* selection have a first paper.
C26_SplitBothNonEmpty ==
    (SplitDone /\ Len(papers) >= 1) =>
        /\ groq_papers # <<>>
        /\ gemini_papers # <<>>
        /\ groq_papers \o gemini_papers = papers
        /\ Len(gemini_papers) - Len(groq_papers) \in {-1, 0, 1}
        /\ GeminiReturned =>
               /\ groq_scored # <<>>
               /\ gemini_scored # <<>>
        /\ pc = "pipeline_error" => raised.at # "run"

\* No select_final_paper call is in the middle of a debate.
BetweenCalls == pc \in {"select", "selected", "pipeline_error"}

\* C27: between and after the select_final_paper calls on one instance,
\* conversation_context is empty when no debate has run yet, and otherwise
\* holds exactly the round-1 argument of A followed by the round-2 argument
\* of B of the most recent debate; so a unanimous selection, and a call
\* that raises on entry, leave it as it was.
C27_ContextOfLastDebate ==
    BetweenCalls =>
        IF groq_argument = Unset /\ gemini_argument = Unset
        THEN conversation_context = <<>>
        ELSE conversation_context
               = <<[role |-> "Agent A (Groq)", content |-> groq_argument,
                    round |-> 1],
                   [role |-> "Agent B (Gemini)", content |-> gemini_argument,
                    round |-> 2]>>

\* A unanimous selection after a debate about other papers.
C27_Witness ==
    /\ pc = "selected"
    /\ selected_paper.selection_method = "unanimous"
    /\ Len(conversation_context) = 2
    /\ conversation_context[2].content = gemini_argument
    /\ debate_served = <<>>

====
